---- MODULE Spec2Model ----
(***************************************************************************)
(* Storefront theme (main.js): initialization, category filter, cart       *)
(* mutation and checkout, as a state machine.  One action is one run of a  *)
(* handler from its entry to its first await, or of its continuation from  *)
(* the settling of the awaited promise to its end (JavaScript runs each of *)
(* these to completion on the single event-loop thread).                   *)
(***************************************************************************)
EXTENDS Integers, Sequences, FiniteSets, TLC

(***************************************************************************)
(* Bounds of the model.                                                    *)
(***************************************************************************)
MaxQty == 1        \* largest quantity of the first item of a cart the server returns
MaxActive == 2     \* cart requests in flight plus checkouts (open forms, pending
                   \* requests of closed forms) at once
MaxErrors == 3     \* load-error events delivered to one product image
MaxTextLen == 1    \* characters of a text value handed to a rendering function
MaxNameLen == 3    \* characters of a store name handed to generateInitials

(***************************************************************************)
(* Data the remote store API serves (the catalogue of the session).        *)
(***************************************************************************)
ProductsData ==
  << [id |-> "p1", name |-> "n1", category |-> "c1", price |-> 2, is_available |-> TRUE,
      image_url |-> "u1"],
     [id |-> "p2", name |-> "n2", category |-> "c2", price |-> 3, is_available |-> TRUE,
      image_url |-> "u2"],
     [id |-> "p3", name |-> "n3", category |-> "c1", price |-> 5, is_available |-> FALSE,
      image_url |-> ""] >>

CategoriesData == << [name |-> "c1", product_count |-> 2], [name |-> "c2", product_count |-> 1] >>

PromotionsData == << [name |-> "promo"] >>

StoreRecord == [name |-> "Shop", currency |-> "USD"]

ProductIds == {ProductsData[i].id : i \in 1..Len(ProductsData)}

ProductOf(p) == CHOOSE r \in {ProductsData[i] : i \in 1..Len(ProductsData)} : r.id = p

\* let cart = { items: [], subtotal: 0, tax: 0, total: 0 }
EmptyCart == [items |-> <<>>, subtotal |-> 0, tax |-> 0, total |-> 0]

RECURSIVE SumQuantity(_)
\* cart.items.reduce((sum, item) => sum + item.quantity, 0)
SumQuantity(items) ==
  IF items = <<>> THEN 0 ELSE items[1].quantity + SumQuantity(Tail(items))

RECURSIVE SumLines(_)
SumLines(items) ==
  IF items = <<>> THEN 0
  ELSE items[1].quantity * items[1].unit_price + SumLines(Tail(items))

\* A cart item as the server returns it.
ServerItem(p, q) ==
  [product_id |-> p, product_name |-> ProductOf(p).name, quantity |-> q,
   unit_price |-> ProductOf(p).price]

\* A cart of the server: the tax (here a flat 1) is the server's; the client
\* has no rule to derive it.
ServerCart(items) ==
  [items |-> items, subtotal |-> SumLines(items), tax |-> 1,
   total |-> SumLines(items) + 1]

\* The carts a successful POST /cart answers with: never empty, quantities positive.
ServerCarts ==
  {ServerCart(<<ServerItem("p1", q)>>) : q \in 1..MaxQty}
    \cup {ServerCart(<<ServerItem("p1", 1), ServerItem("p2", 1)>>)}

(***************************************************************************)
(* Pure functions of main.js.                                              *)
(***************************************************************************)
\* formatPrice: Intl.NumberFormat('en-US', {style:'currency'}) of a whole
\* amount: currency symbol, the amount, two zero decimals.
FormatPrice(price, currency) ==
  << IF currency = "USD" THEN "$" ELSE currency, price, "00" >>

\* renderCartItems: one row per cart item; the +/- buttons carry the
\* product id and the item's quantity minus / plus one.
RenderCartItems(c) ==
  [i \in 1..Len(c.items) |->
     [name |-> c.items[i].product_name,
      price |-> FormatPrice(c.items[i].unit_price, StoreRecord.currency),
      quantity |-> c.items[i].quantity,
      minus |-> [productId |-> c.items[i].product_id, newQuantity |-> c.items[i].quantity - 1],
      plus |-> [productId |-> c.items[i].product_id, newQuantity |-> c.items[i].quantity + 1]]]

\* A panel that adds the item lines up for its total.
CartDisplayRecomputed(c) ==
  [items |-> RenderCartItems(c),
   count |-> SumQuantity(c.items),
   total |-> FormatPrice(SumLines(c.items), StoreRecord.currency),
   checkoutDisabled |-> (Len(c.items) = 0)]

\* renderCart / updateCartDisplay: item rows, badge (0 = no badge element),
\* total text, and the disabled flag of the panel's checkout button.
CartDisplay(c) ==
  [items |-> RenderCartItems(c),
   count |-> SumQuantity(c.items),
   total |-> FormatPrice(c.total, StoreRecord.currency),
   checkoutDisabled |-> (Len(c.items) = 0)]

NoDisplay == [items |-> <<>>, count |-> 0, total |-> <<>>, checkoutDisabled |-> TRUE]

\* renderProducts + renderProduct: the add-to-cart button of every product
\* the grid shows for a category selection.
RenderGrid(cat) ==
  [p \in ProductIds |->
     IF cat = "all" \/ ProductOf(p).category = cat
     THEN IF ProductOf(p).is_available THEN "enabled" ELSE "outOfStock"
     ELSE "absent"]

NoGrid == [p \in ProductIds |-> "absent"]

\* A guard that lets every cart through.
CartIsEmptyNever(c) == FALSE

\* handleCheckout's guard: cart.items.length === 0
CartIsEmpty(c) == Len(c.items) = 0

\* An optimistic client that clears the cart when the request fails.
SettleCartClearing(old, ok, response) == IF ok THEN response ELSE EmptyCart

\* A client that merges the response into the cart it holds.
SettleCartMerging(old, ok, response) ==
  IF ok THEN [response EXCEPT !.items = old.items \o response.items] ELSE old

\* cart = await api.addToCart(...): the assignment happens only when the
\* promise resolves; a rejection leaves the variable as it was.
SettleCart(old, ok, response) == IF ok THEN response ELSE old

\* Order data that passes the cart's own item objects on.
SnapshotItemsLive(items) == items

\* submitCheckout: cart.items.map(item => ({product_id, quantity, unit_price}))
SnapshotItems(items) ==
  [i \in 1..Len(items) |->
     [product_id |-> items[i].product_id, quantity |-> items[i].quantity,
      unit_price |-> items[i].unit_price]]

(***************************************************************************)
(* State.                                                                  *)
(***************************************************************************)
VARIABLES
  api,             \* "null" or "client"
  loadPc,          \* loadStoreData: "notStarted", "aborted", "awaiting", "done"
  fetch,           \* the four initial requests: "idle", "pending", "ok", "fail"
  view,            \* what the container shows: set of rendered sections
  nav,             \* the category buttons of <nav>: the one with class "active"
                   \* and the click listeners each of them carries
  storeData, products, categories, promotions,
  hookThrew,       \* window.CustomAPI.initializeCustomFeatures() was called and threw
  currentCategory,
  grid,            \* add-to-cart button per product in <main>
  cart,
  display,         \* the cart panel as rendered
  reqs,            \* api.addToCart requests in flight, oldest first
  forms,           \* open checkout forms (.modal-overlay) in document order,
                   \* each with its submit button and its pending api.checkout
  orphans,         \* pending api.checkout requests whose form was closed:
                   \* how many per cart they were submitted with
  navigated,       \* window.location.href was set to a tracking URL
  lastResponse,    \* value of the most recent resolved api.addToCart
  last,            \* the handler run by the last step and what it showed / called
  images,          \* the <img> element of each product card
  result,          \* the last call of a pure function: name, argument, value
  request,         \* an HTTP request of customAPIRequest or of the StoreAPIClient
  header           \* the logo <img> and the initials badge of <header>

themeVars == << api, loadPc, fetch, view, nav, storeData, products, categories, promotions,
                hookThrew, currentCategory, grid, cart, display, reqs,
                forms, orphans, navigated, lastResponse, last >>

vars == << api, loadPc, fetch, view, nav, storeData, products, categories, promotions,
           hookThrew, currentCategory, grid, cart, display, reqs,
           forms, orphans, navigated, lastResponse, last, images, result,
           request, header >>

Fetches == {"getStore", "getProducts", "getCategories", "getPromotions"}
FatalFetches == {"getStore", "getProducts", "getCategories"}
Carts == ServerCarts \cup {EmptyCart}

\* A checkout form: its submit button ("enabled", or "processing" once
\* submitCheckout disabled it), whether its api.checkout is pending, the
\* cart_items sent, and the cart they were taken from.
Form(submit, pending, c, items) ==
  [submit |-> submit, pending |-> pending, cart_items |-> items, cartAtSubmit |-> c]

FreshForm == Form("enabled", FALSE, EmptyCart, <<>>)

LoadingView == {"loading"}
ErrorView == {"error", "retry"}
\* A theme that stays blank without an API client.
ApiErrorViewBlank == {}

ApiErrorView == {"apiError"}
\* renderTheme: header, navigation (when there are categories), promotions
\* (when there are any), products, footer, cart.
PageView(cats, promos) ==
  {"header", "products", "footer", "cart"}
    \cup (IF Len(cats) > 0 THEN {"navigation"} ELSE {})
    \cup (IF Len(promos) > 0 THEN {"promotions"} ELSE {})

\* What a step did: the handler, the alert it showed, the API call it
\* issued, whether it resolved a request issued after one still pending,
\* and the checkout form it belongs to (0 = none).
FormEvent(op, alert, call, form) ==
  [op |-> op, alert |-> alert, call |-> call, outOfOrder |-> FALSE, form |-> form]

Event(op, alert, call) == FormEvent(op, alert, call, 0)

(***************************************************************************)
(* Product images (renderProduct's <img> and its onerror handler).         *)
(***************************************************************************)
libVars == << images, result, request, header >>

\* An <img> element: what src points to, dataset.fallbackSet, the onerror
\* handler, the load-error events delivered to it and how often its src was
\* set to the placeholder after creation.
Image(src, onerror) ==
  [src |-> src, fallbackSet |-> FALSE, onerror |-> onerror, errors |-> 0, swaps |-> 0]

NoImage == Image("none", "null")

\* renderProduct: an <img> with the inline onerror handler when the product
\* has an image_url, the placeholder without a handler otherwise.
RenderImage(product) ==
  IF product.image_url # "" THEN Image("url", "inline") ELSE Image("placeholder", "null")

\* A guard that lets every error through.
FallbackNotSetAlways(img) == TRUE

\* if(!this.dataset.fallbackSet) / if (img.dataset.fallbackSet === 'true') return
FallbackNotSet(img) == ~img.fallbackSet

\* The handler body: flag, this.onerror = null, src = placeholder.
HandleImageError(img) ==
  IF FallbackNotSet(img)
  THEN [img EXCEPT !.fallbackSet = TRUE, !.onerror = "null", !.src = "placeholder",
                   !.swaps = @ + 1]
  ELSE img

\* The browser delivers a load-error event to the element: the onerror
\* handler runs if there is one.
DeliverError(img) ==
  LET counted == [img EXCEPT !.errors = @ + 1]
  IN IF img.onerror = "inline" THEN HandleImageError(counted) ELSE counted

\* A product card is rendered: a new element replaces the old one.
RenderProduct(p) ==
  /\ images' = [images EXCEPT ![p] = RenderImage(ProductOf(p))]
  /\ UNCHANGED << themeVars, result, request, header >>

\* The image (the product's, or the placeholder it was swapped to) fails to
\* load.
ImageError(p) ==
  /\ images[p].src # "none"
  /\ images[p].errors < MaxErrors
  /\ images' = [images EXCEPT ![p] = DeliverError(@)]
  /\ UNCHANGED << themeVars, result, request, header >>

\* window.handleImageError(img, placeholder) called by an error listener of
\* the host page.
HandleImageErrorCall(p) ==
  /\ images[p].src # "none"
  /\ images[p].errors < MaxErrors
  /\ images' = [images EXCEPT ![p] = HandleImageError([@ EXCEPT !.errors = @ + 1])]
  /\ UNCHANGED << themeVars, result, request, header >>

(***************************************************************************)
(* Markup construction: escapeHtml and the values the rendering functions  *)
(* insert into their templates.  A text is a sequence of characters; an    *)
(* escaped character is the entity that stands for it.                     *)
(***************************************************************************)
Call(fn, arg, value) == [fn |-> fn, arg |-> arg, value |-> value]

NoCall == Call("none", <<>>, <<>>)

Alphabet == {"a", "<", ">", "&", "\"", "'"}

RECURSIVE TextsOfLength(_)
TextsOfLength(n) ==
  IF n = 0 THEN {<<>>}
  ELSE {Append(t, ch) : t \in TextsOfLength(n - 1), ch \in Alphabet}

Texts == UNION {TextsOfLength(n) : n \in 0..MaxTextLen}

\* div.textContent = text; return div.innerHTML: the serialization of a
\* text node replaces &, < and > and nothing else.
EscapeChar(ch) ==
  CASE ch = "&" -> "&amp;" [] ch = "<" -> "&lt;" [] ch = ">" -> "&gt;" [] OTHER -> ch

EscapeHtml(text) == [i \in 1..Len(text) |-> EscapeChar(text[i])]

\* A value placed into a template: the field it comes from, where in the
\* markup it lands ("text", "attribute" for a double-quoted attribute
\* value, "handler" for a single-quoted string of an inline handler) and
\* the characters inserted.
Insert(field, position, chars) == [field |-> field, position |-> position, chars |-> chars]

\* renderHeader
RenderHeaderMarkup(store) ==
  << Insert("logo_url", "attribute", EscapeHtml(store.logo_url)),
     Insert("name", "attribute", EscapeHtml(store.name)),
     Insert("name", "text", EscapeHtml(store.name)),
     Insert("description", "text", EscapeHtml(store.description)),
     Insert("social_links.url", "attribute", EscapeHtml(store.social_url)),
     Insert("social_links.platform", "text", EscapeHtml(store.social_platform)) >>

\* renderNavigation
RenderNavigationMarkup(cat) ==
  << Insert("category.name", "attribute", EscapeHtml(cat.name)),
     Insert("category.name", "text", EscapeHtml(cat.name)) >>

\* renderPromotions
RenderPromotionsMarkup(promo) ==
  << Insert("promotion.name", "text", EscapeHtml(promo.name)),
     Insert("promotion.description", "text", EscapeHtml(promo.description)),
     Insert("promotion.code", "text", EscapeHtml(promo.code)) >>

\* renderProducts when the selected category has no product: the category
\* is put into the message as it is.
NoProductsMarkup(category) ==
  << Insert("currentCategory", "text", category) >>

\* renderProduct: the product id goes into the image id, the onclick
\* handler and data-product-id as it is.
RenderProductMarkup(product) ==
  << Insert("id", "attribute", product.id),
     Insert("image_url", "attribute", EscapeHtml(product.image_url)),
     Insert("name", "attribute", EscapeHtml(product.name)),
     Insert("name", "text", EscapeHtml(product.name)),
     Insert("description", "text", EscapeHtml(product.description)),
     Insert("tags", "text", EscapeHtml(product.tag)),
     Insert("id", "handler", product.id),
     Insert("id", "attribute", product.id) >>

\* renderFooter
RenderFooterMarkup(store) ==
  << Insert("phone", "text", EscapeHtml(store.phone)),
     Insert("email", "text", EscapeHtml(store.email)),
     Insert("address", "text", EscapeHtml(store.address)) >>

\* renderCartItems: the product id goes into the two onclick handlers as
\* it is.
RenderCartItemsMarkup(item) ==
  << Insert("product_name", "text", EscapeHtml(item.product_name)),
     Insert("product_id", "handler", item.product_id),
     Insert("product_id", "handler", item.product_id) >>

RenderFns ==
  {"renderHeader", "renderNavigation", "renderPromotions", "renderProducts",
   "renderProduct", "renderFooter", "renderCartItems"}

\* The markup of a rendering function for data whose text fields all hold t.
Markup(fn, t) ==
  CASE fn = "renderHeader" ->
         RenderHeaderMarkup([logo_url |-> t, name |-> t, description |-> t,
                             social_url |-> t, social_platform |-> t])
    [] fn = "renderNavigation" -> RenderNavigationMarkup([name |-> t])
    [] fn = "renderPromotions" ->
         RenderPromotionsMarkup([name |-> t, description |-> t, code |-> t])
    [] fn = "renderProducts" -> NoProductsMarkup(t)
    [] fn = "renderProduct" ->
         RenderProductMarkup([id |-> t, image_url |-> t, name |-> t, description |-> t,
                              tag |-> t])
    [] fn = "renderFooter" -> RenderFooterMarkup([phone |-> t, email |-> t, address |-> t])
    [] fn = "renderCartItems" -> RenderCartItemsMarkup([product_name |-> t, product_id |-> t])

\* A rendering function builds its markup from remote data.
Render(fn, t) ==
  /\ result' = Call(fn, t, Markup(fn, t))
  /\ UNCHANGED << themeVars, images, request, header >>

(***************************************************************************)
(* generateInitials.  A name is a sequence of characters.                  *)
(***************************************************************************)
NameAlphabet == {"p", "z", " "}

RECURSIVE NamesOfLength(_)
NamesOfLength(n) ==
  IF n = 0 THEN {<<>>}
  ELSE {Append(t, ch) : t \in NamesOfLength(n - 1), ch \in NameAlphabet}

Names == UNION {NamesOfLength(n) : n \in 0..MaxNameLen}

\* String.prototype.toUpperCase, per character
ToUpperCase(text) ==
  [i \in 1..Len(text) |->
     CASE text[i] = "p" -> "P" [] text[i] = "z" -> "Z" [] OTHER -> text[i]]

RECURSIVE TrimStart(_)
TrimStart(text) ==
  IF text # <<>> /\ text[1] = " " THEN TrimStart(Tail(text)) ELSE text

RECURSIVE TrimEnd(_)
TrimEnd(text) ==
  IF text # <<>> /\ text[Len(text)] = " " THEN TrimEnd(SubSeq(text, 1, Len(text) - 1))
  ELSE text

\* String.prototype.trim
Trim(text) == TrimEnd(TrimStart(text))

RECURSIVE SplitFrom(_, _, _)
\* split(/\s+/): words is what was split off so far, word the characters
\* since the last run of white space.
SplitFrom(text, words, word) ==
  IF text = <<>> THEN Append(words, word)
  ELSE IF text[1] = " "
  THEN SplitFrom(TrimStart(text), Append(words, word), <<>>)
  ELSE SplitFrom(Tail(text), words, Append(word, text[1]))

Split(text) == SplitFrom(text, <<>>, <<>>)

\* name.substring(0, 2)
Substring2(text) == SubSeq(text, 1, IF Len(text) < 2 THEN Len(text) ELSE 2)

\* word.charAt(0)
CharAt0(word) == IF word = <<>> THEN <<>> ELSE <<word[1]>>

\* generateInitials(name): the words come from the trimmed name, the two
\* letters of a single word from the name as it was passed.
GenerateInitials(name) ==
  IF name = <<>> THEN <<"S", "T">>
  ELSE LET words == Split(Trim(name))
       IN IF Len(words) = 1
          THEN ToUpperCase(Substring2(name))
          ELSE ToUpperCase(CharAt0(words[1]) \o CharAt0(words[2]))

CallGenerateInitials(name) ==
  /\ result' = Call("generateInitials", name, GenerateInitials(name))
  /\ UNCHANGED << themeVars, images, request, header >>

(***************************************************************************)
(* StoreAPIClient.getProducts: the query string of the filters.            *)
(***************************************************************************)
\* A JavaScript value: its type and its string form.
Value(t, v) == [t |-> t, v |-> v]

Undefined == Value("undefined", "undefined")

FilterNames == {"category", "search", "min_price", "max_price", "in_stock"}

\* The values a caller gives a filter: left out, a falsy value, another value.
FilterValues(f) ==
  CASE f = "category" -> {Undefined, Value("string", ""), Value("string", "c1")}
    [] f = "search" -> {Undefined, Value("string", ""), Value("string", "tea")}
    [] f = "min_price" -> {Undefined, Value("number", "0"), Value("number", "5")}
    [] f = "max_price" -> {Undefined, Value("number", "0"), Value("number", "9")}
    [] f = "in_stock" -> {Undefined, Value("boolean", "false"), Value("boolean", "true")}

FiltersSet ==
  {fs \in [FilterNames -> UNION {FilterValues(f) : f \in FilterNames}] :
     \A f \in FilterNames : fs[f] \in FilterValues(f)}

\* if (x): undefined, '', 0 and false do not pass.
Truthy(x) ==
  ~ \/ x.t = "undefined"
    \/ x.t = "string" /\ x.v = ""
    \/ x.t = "number" /\ x.v = "0"
    \/ x.t = "boolean" /\ x.v = "false"

\* params.append(name, value) when the test passes
Param(test, name, x) == IF test THEN << <<name, x.v>> >> ELSE <<>>

\* The URLSearchParams getProducts builds: a truthiness test for category,
\* search, min_price and max_price, !== undefined for in_stock.
GetProductsParams(filters) ==
  Param(Truthy(filters["category"]), "category", filters["category"])
    \o Param(Truthy(filters["search"]), "search", filters["search"])
    \o Param(Truthy(filters["min_price"]), "min_price", filters["min_price"])
    \o Param(Truthy(filters["max_price"]), "max_price", filters["max_price"])
    \o Param(filters["in_stock"] # Undefined, "in_stock", filters["in_stock"])

GetProducts(filters) ==
  /\ result' = Call("getProducts", filters, GetProductsParams(filters))
  /\ UNCHANGED << themeVars, images, request, header >>

(***************************************************************************)
(* HTTP requests: customAPIRequest (custom-api.js) and the mutating        *)
(* operations of StoreAPIClient.                                           *)
(***************************************************************************)
CustomAPIConfig == [baseUrl |-> "https://your-api.example.com/api", apiKey |-> "null",
                    timeout |-> 10000]

HeaderNames == {"Content-Type", "Authorization", "X-Trace"}

\* A headers object: the value per header name, "absent" for a key the
\* object does not have.
Headers(contentType, authorization, trace) ==
  [h \in HeaderNames |->
     CASE h = "Content-Type" -> contentType
       [] h = "Authorization" -> authorization
       [] h = "X-Trace" -> trace]

NoHeaders == Headers("absent", "absent", "absent")

\* {...a, ...b}: the keys of b override those of a.
Spread(a, b) == [h \in HeaderNames |-> IF b[h] # "absent" THEN b[h] ELSE a[h]]

\* The options a caller passes: method ("undefined" = key not given),
\* whether it has a headers key and that object, and body ("undefined",
\* "null", "object", "string").
Options(method, hasHeaders, headers, body) ==
  [method |-> method, hasHeaders |-> hasHeaders, headers |-> headers, body |-> body]

OptionsSet ==
  {Options(m, FALSE, NoHeaders, b) : m \in {"undefined", "POST"},
                                    b \in {"undefined", "null", "object", "string"}}
    \cup {Options(m, TRUE, h, b) :
            m \in {"undefined", "POST"},
            h \in {NoHeaders, Headers("absent", "absent", "1")},
            b \in {"undefined", "null", "object", "string"}}

\* const defaultHeaders = {'Content-Type': 'application/json'}, plus
\* Authorization when CustomAPIConfig.apiKey is set.
DefaultHeaders(apiKey) ==
  Headers("application/json", IF apiKey # "null" THEN "Bearer " \o apiKey ELSE "absent",
          "absent")

\* const config = {method: ..., headers: {...defaultHeaders, ...options.headers},
\* ...options}: the spread of options comes last, so its headers key, when
\* it has one, replaces the merged headers; an object body is replaced by
\* its JSON serialization afterwards.
BuildConfig(apiKey, options) ==
  [method |-> IF options.method = "undefined" THEN "GET" ELSE options.method,
   headers |-> IF options.hasHeaders THEN options.headers
               ELSE Spread(DefaultHeaders(apiKey), NoHeaders),
   body |-> IF options.body = "object" THEN "JSON.stringify(object)" ELSE options.body]

\* A response: ok (status 2xx), status, statusText (empty over HTTP/2) and
\* its body: JSON carrying the message field the reader looks for
\* ("message"), other JSON ("other") or no JSON at all ("notJSON").
Response(ok, status, statusText, body) ==
  [ok |-> ok, status |-> status, statusText |-> statusText, body |-> body]

NoResponse == Response(TRUE, "0", "", "none")

BodyKinds == {"message", "other", "notJSON"}

Responses ==
  {Response(TRUE, "200", "OK", b) : b \in BodyKinds}
    \cup {Response(FALSE, "404", st, b) : st \in {"Not Found", ""}, b \in BodyKinds}

\* Error messages, as the sequence of their parts; <<>> is a missing or
\* empty message.
Timeout == <<"Request timeout">>
NetworkError == <<"Failed to fetch">>
SyntaxError == <<"Unexpected token">>
BodyMessage == <<"message of the error body">>
\* `HTTP ${response.status}: ${response.statusText}`
StatusMessage(resp) == <<"HTTP ", resp.status, ": ", resp.statusText>>

\* a || b on messages
Or(a, b) == IF a # <<>> THEN a ELSE b

\* A request: who issued it, with which CustomAPIConfig.apiKey and options,
\* the configuration handed to fetch, where the
\* caller stands ("fetch": awaiting fetch, "body": awaiting response.json(),
\* "resolved", "rejected"), the timeout timer ("none", "armed", "fired") and
\* its delay, the response received and the message of the error thrown.
Req(via, apiKey, options, config, phase, timer, delay, response, error) ==
  [via |-> via, apiKey |-> apiKey, options |-> options, config |-> config, phase |-> phase,
   timer |-> timer, delay |-> delay, response |-> response, error |-> error]

NoConfig == [method |-> "none", headers |-> NoHeaders, body |-> "undefined"]

NoOptions == Options("undefined", FALSE, NoHeaders, "undefined")

NoRequest == Req("none", "null", NoOptions, NoConfig, "idle", "none", 0, NoResponse, <<>>)

\* customAPIRequest(endpoint, options) up to its await: the configuration is
\* built, the timer is set and fetch is called.
CustomAPIRequest(apiKey, options) ==
  /\ request' = Req("customAPIRequest", apiKey, options, BuildConfig(apiKey, options),
                    "fetch", "armed",
                    CustomAPIConfig.timeout, NoResponse, <<>>)
  /\ UNCHANGED << themeVars, images, result, header >>

\* StoreAPIClient.addToCart / checkout up to the await of fetch: a POST with
\* a JSON body and no timer.
ClientRequest(op) ==
  /\ request' = Req(op, "null", NoOptions,
                    [method |-> "POST",
                         headers |-> Headers("application/json", "absent", "absent"),
                         body |-> "JSON.stringify(object)"],
                    "fetch", "none", 0, NoResponse, <<>>)
  /\ UNCHANGED << themeVars, images, result, header >>

\* fetch resolves with a response (of any status).
FetchResolves(resp) ==
  /\ request.phase = "fetch"
  /\ request' = [request EXCEPT !.phase = "body", !.response = resp]
  /\ UNCHANGED << themeVars, images, result, header >>

\* fetch rejects (network failure); the catch block rethrows.
FetchRejects ==
  /\ request.phase = "fetch"
  /\ request' = [request EXCEPT !.phase = "rejected", !.error = NetworkError]
  /\ UNCHANGED << themeVars, images, result, header >>

\* A caller that awaits fetch alone.
TimerWinsNever(req) == FALSE

\* Promise.race([fetch(url, config), timeoutPromise]): the timer's rejection
\* settles the race when fetch has not settled it before.
TimerWins(req) == req.phase = "fetch"

\* The setTimeout callback runs: reject(new Error('Request timeout')).
TimerFires ==
  /\ request.timer = "armed"
  /\ request' = IF TimerWins(request)
                THEN [request EXCEPT !.timer = "fired", !.phase = "rejected", !.error = Timeout]
                ELSE [request EXCEPT !.timer = "fired"]
  /\ UNCHANGED << themeVars, images, result, header >>

\* customAPIRequest on a non-2xx response:
\* errorData = await response.json().catch(() => ({message: response.statusText}));
\* throw new Error(errorData.message || `HTTP ${status}: ${statusText}`)
CustomError(resp) ==
  LET message == CASE resp.body = "message" -> BodyMessage
                   [] resp.body = "other" -> <<>>
                   [] resp.body = "notJSON" ->
                        IF resp.statusText = "" THEN <<>> ELSE <<resp.statusText>>
  IN Or(message, StatusMessage(resp))

\* StoreAPIClient.addToCart / checkout on a non-2xx response:
\* const error = await response.json();
\* throw new Error(error.error || `HTTP ${status}: ${statusText}`)
\* where response.json() itself throws on a body that is no JSON.
ClientError(resp) ==
  CASE resp.body = "message" -> BodyMessage
    [] resp.body = "other" -> StatusMessage(resp)
    [] resp.body = "notJSON" -> SyntaxError

\* The read of the body settles and the function runs to its end.
BodySettles ==
  /\ request.phase = "body"
  /\ LET resp == request.response
     IN request' =
          IF resp.ok
          THEN IF resp.body = "notJSON"
               THEN [request EXCEPT !.phase = "rejected", !.error = SyntaxError]
               ELSE [request EXCEPT !.phase = "resolved"]
          ELSE [request EXCEPT !.phase = "rejected",
                               !.error = IF request.via = "customAPIRequest"
                                         THEN CustomError(resp) ELSE ClientError(resp)]
  /\ UNCHANGED << themeVars, images, result, header >>

(***************************************************************************)
(* Category navigation (renderNavigation, attachEventListeners).           *)
(***************************************************************************)
MaxListeners == 2

\* The category buttons: which one carries class "active" ("none" when
\* there is no <nav>) and how many click listeners each carries; counts
\* above MaxListeners are kept as MaxListeners.
Nav(active, listeners) == [active |-> active, listeners |-> listeners]

NoNav == Nav("none", 0)

\* renderNavigation: nothing without categories; otherwise the button whose
\* data-category equals currentCategory gets class "active".  The buttons
\* are new elements without listeners.
RenderNavigation(cats, category) ==
  IF Len(cats) = 0 THEN NoNav ELSE Nav(category, 0)

\* attachEventListeners: one more click listener on every .category-btn in
\* the document.
AttachEventListeners(n) ==
  IF n.active = "none" THEN n
  ELSE [n EXCEPT !.listeners = IF @ + 1 > MaxListeners THEN MaxListeners ELSE @ + 1]

\* The listeners a button carries when it is clicked run one after the
\* other; a listener added during the dispatch does not run in it.  Each
\* run rewrites <main> only (the <nav> buttons stay) and ends with
\* attachEventListeners().
RECURSIVE Runs(_, _)
Runs(n, k) == IF k = 0 THEN n ELSE Runs(AttachEventListeners(n), k - 1)

ListenersRun(n) == Runs(n, n.listeners)

(***************************************************************************)
(* renderProducts: the products of the selected category.                  *)
(***************************************************************************)
MaxProducts == 2

\* Category names that differ in case, and one no product has.
ProductCategories == {"c1", "C1", "c2"}
Selections == {"all", "c1", "C1", "c3"}

\* Product lists: the i-th product has id i and any of the categories.
ProductLists ==
  UNION {[1..n -> {[id |-> i, category |-> c] : i \in 1..MaxProducts, c \in ProductCategories}]
           : n \in 0..MaxProducts}

Catalogues == {ps \in ProductLists : \A i \in 1..Len(ps) : ps[i].id = i}

\* A comparison that ignores case.
CategoryMatchesFold(category, selected) ==
  LET lower(s) == IF s = "C1" THEN "c1" ELSE s
  IN lower(category) = lower(selected)

\* p.category === currentCategory
CategoryMatches(category, selected) == category = selected

\* currentCategory === 'all' ? products : products.filter(...)
FilteredProducts(ps, selected) ==
  IF selected = "all" THEN ps
  ELSE SelectSeq(ps, LAMBDA p : CategoryMatches(p.category, selected))

\* renderProducts: the cards of the filtered products in their order, or
\* the "No products found" block with its sentence (the markup of that
\* block is NoProductsMarkup).
RenderProducts(ps, selected) ==
  LET filtered == FilteredProducts(ps, selected)
  IN IF Len(filtered) = 0
     THEN [cards |-> <<>>,
           message |-> IF selected = "all"
                       THEN <<"This store has no products yet.">>
                       ELSE <<"No products in the \"", selected, "\" category.">>]
     ELSE [cards |-> [i \in 1..Len(filtered) |-> filtered[i].id], message |-> <<>>]

CallRenderProducts(ps, selected) ==
  /\ result' = Call("renderProductsSelection", <<ps, selected>>, RenderProducts(ps, selected))
  /\ UNCHANGED << themeVars, images, request, header >>

(***************************************************************************)
(* initTheme and the store identifier of the StoreAPIClient.               *)
(***************************************************************************)
StoreSlugs == {"s1", "s2"}

\* new StoreAPIClient(baseUrl): the constructor assigns baseUrl alone, so
\* reading storeSlug of the instance gives undefined.
StoreAPIClient(baseUrl) == [baseUrl |-> Value("string", baseUrl), storeSlug |-> Undefined]

\* The instances initTheme may be given: as constructed, or with a
\* storeSlug property the host assigned beforehand.
Clients ==
  {StoreAPIClient("")}
    \cup {[StoreAPIClient("") EXCEPT !.storeSlug = Value("string", s)] : s \in {"", "s0"}}

\* if (api.storeSlug !== undefined) { api.storeSlug = storeSlug; }
SetStoreSlug(client, storeSlug) ==
  IF client.storeSlug # Undefined
  THEN [client EXCEPT !.storeSlug = Value("string", storeSlug)]
  ELSE client

Endpoints == {"settings", "products", "categories", "promotions", "cart", "checkout"}

\* `${this.baseUrl}/api/store/${this.storeSlug}/...`
Url(client, endpoint) ==
  << client.baseUrl.v, "/api/store/", client.storeSlug.v, "/", endpoint >>

\* initTheme({api, container, storeSlug}): the URLs the client requests
\* from then on.
CallInitTheme(client, storeSlug) ==
  /\ result' = Call("initTheme", <<client, storeSlug>>,
                    [ep \in Endpoints |-> Url(SetStoreSlug(client, storeSlug), ep)])
  /\ UNCHANGED << themeVars, images, request, header >>

(***************************************************************************)
(* addToCart / updateCartQuantity after the await, for any settlement of   *)
(* api.addToCart, a response that is not a cart included.                  *)
(***************************************************************************)
\* A response object without an items list.
ResponseWithoutItems == [subtotal |-> 0, tax |-> 0, total |-> 0]

MutationResponses == ServerCarts \cup {ResponseWithoutItems}

\* updateCartDisplay reads cart.items.length (renderCartItems) and
\* cart.items.reduce: a TypeError when cart has no items list.
UpdateCartDisplayThrows(c) == "items" \notin DOMAIN c

FailureAlert(handler) ==
  IF handler = "addToCart" THEN "Failed to add item to cart" ELSE "Failed to update cart"

\* try { cart = await api.addToCart(...); updateCartDisplay(); ... }
\* catch (error) { alert('Failed to ...'); ... }: the cart the handler
\* leaves and the alert it shows.
MutationOutcome(handler, old, ok, response) ==
  LET assigned == SettleCart(old, ok, response)
  IN [cart |-> assigned,
      alert |-> IF ~ok \/ UpdateCartDisplayThrows(assigned)
                THEN FailureAlert(handler) ELSE "none"]

CallMutationOutcome(handler, old, ok, response) ==
  /\ result' = Call(handler, <<old, ok, response>>, MutationOutcome(handler, old, ok, response))
  /\ UNCHANGED << themeVars, images, request, header >>

(***************************************************************************)
(* The logo of <header> (renderHeader): an <img> with an inline onerror    *)
(* handler when the store has a logo_url, and the initials badge.          *)
(***************************************************************************)
\* What a store's settings give as logo_url.
LogoUrls == {Undefined, Value("string", ""), Value("string", "u")}

\* A header element: "none" (not in the page), "visible" or "hidden"
\* (style.display = 'none').  failed: the logo got a load-error event.
Header(logo_url, logo, initials) ==
  [logo_url |-> logo_url, logo |-> logo, initials |-> initials, failed |-> FALSE]

NoHeader == Header(Undefined, "none", "none")

\* if (storeData.logo_url) logo = `<img ... class="logo" onerror=...>`
LogoElement(logo_url) == IF Truthy(logo_url) THEN "visible" ELSE "none"

\* A badge that is shown next to the logo as well.
InitialsElementShown(logo_url) == "visible"

\* <div class="logo-initials" style="${storeData.logo_url ? 'display: none;' : ''}">
InitialsElement(logo_url) == IF Truthy(logo_url) THEN "hidden" ELSE "visible"

\* onerror of the logo: this.style.display='none'; the next element sibling
\* (the badge) gets style.display='flex'.
LogoOnError(h) ==
  [h EXCEPT !.logo = "hidden",
            !.initials = IF h.initials # "none" THEN "visible" ELSE "none",
            !.failed = TRUE]

\* renderTheme writes the header: new elements replace the old ones.
RenderHeaderLogo(logo_url) ==
  /\ header' = Header(logo_url, LogoElement(logo_url), InitialsElement(logo_url))
  /\ UNCHANGED << themeVars, images, result, request >>

\* The logo fails to load.
LogoError ==
  /\ header.logo = "visible"
  /\ header' = LogoOnError(header)
  /\ UNCHANGED << themeVars, images, result, request >>

Init ==
  /\ api = "null"
  /\ loadPc = "notStarted"
  /\ fetch = [f \in Fetches |-> "idle"]
  /\ view = {}
  /\ nav = NoNav
  /\ storeData = "null"
  /\ products = <<>>
  /\ categories = <<>>
  /\ promotions = <<>>
  /\ hookThrew = FALSE
  /\ currentCategory = "all"
  /\ grid = NoGrid
  /\ cart = EmptyCart
  /\ display = NoDisplay
  /\ reqs = <<>>
  /\ forms = <<>>
  /\ orphans = [c \in Carts |-> 0]
  /\ navigated = FALSE
  /\ lastResponse = EmptyCart
  /\ last = Event("none", "none", <<>>)
  /\ images = [p \in ProductIds |-> NoImage]
  /\ result = NoCall
  /\ request = NoRequest
  /\ header = NoHeader

(***************************************************************************)
(* Initialization controller.                                              *)
(***************************************************************************)
\* initTheme({api, container, storeSlug}) followed by the synchronous part
\* of loadStoreData (showLoading and the four fetches).  The event is
\* "initThemeNoMount" when there is no API client and neither the container
\* parameter nor #theme-container gives an element to write the message to.
InitTheme(apiAvailable, containerAvailable) ==
  /\ UNCHANGED libVars
  /\ loadPc = "notStarted"
  /\ UNCHANGED << nav, storeData, products, categories, promotions, hookThrew, currentCategory,
                  grid, cart, display, reqs, forms, orphans,
                  navigated, lastResponse >>
  /\ IF ~apiAvailable
     THEN /\ api' = "null"
          /\ view' = IF containerAvailable THEN ApiErrorView ELSE view
          /\ loadPc' = "aborted"
          /\ fetch' = fetch
          /\ last' = Event(IF containerAvailable THEN "initTheme" ELSE "initThemeNoMount",
                           "none", <<>>)
     ELSE IF ~containerAvailable
     THEN /\ api' = "client"
          /\ view' = view
          /\ loadPc' = "aborted"
          /\ fetch' = fetch
          /\ last' = Event("initTheme", "none", <<>>)
     ELSE /\ api' = "client"
          /\ view' = LoadingView
          /\ loadPc' = "awaiting"
          /\ fetch' = [f \in Fetches |-> "pending"]
          /\ last' = Event("initTheme", "none", <<"getStore", "getProducts", "getCategories", "getPromotions">>)

\* Promise.all([getStore, getProducts, getCategories, getPromotions.catch(() => [])])
\* rejects with the first rejection among the first three and resolves when
\* all four have settled otherwise.
AllRejected(ft) == \E f \in FatalFetches : ft[f] = "fail"
AllResolved(ft) ==
  /\ \A f \in FatalFetches : ft[f] = "ok"
  /\ ft["getPromotions"] \in {"ok", "fail"}

\* One of the initial requests settles; when that settles Promise.all, the
\* rest of loadStoreData runs: the catch block, or the assignments, the
\* custom-features hook and renderTheme.
FetchSettle(f, ok, hookBehaviour) ==
  /\ UNCHANGED libVars
  /\ loadPc \in {"awaiting", "done"}
  /\ fetch[f] = "pending"
  /\ ~navigated
  /\ fetch' = [fetch EXCEPT ![f] = IF ok THEN "ok" ELSE "fail"]
  /\ UNCHANGED << api, currentCategory, cart, reqs, forms, orphans,
                  navigated, lastResponse >>
  /\ IF loadPc = "done"
     THEN /\ hookBehaviour = "absent"
          /\ UNCHANGED << loadPc, view, nav, storeData, products, categories, promotions,
                          hookThrew, grid, display >>
          /\ last' = Event("fetchSettled", "none", <<>>)
     ELSE IF AllRejected(fetch')
     THEN /\ hookBehaviour = "absent"
          /\ loadPc' = "done"
          /\ view' = ErrorView
          /\ UNCHANGED << nav, storeData, products, categories, promotions, hookThrew, grid, display >>
          /\ last' = Event("loadFailed", "none", <<>>)
     ELSE IF AllResolved(fetch')
     THEN /\ loadPc' = "done"
          /\ storeData' = StoreRecord
          /\ products' = ProductsData
          /\ categories' = CategoriesData
          /\ promotions' = IF fetch'["getPromotions"] = "ok" THEN PromotionsData ELSE <<>>
          /\ hookThrew' = (hookBehaviour = "throws")
          /\ IF hookBehaviour = "throws"
             THEN /\ view' = ErrorView
                  /\ UNCHANGED << nav, grid, display >>
                  /\ last' = Event("loadFailed", "none", <<>>)
             ELSE /\ view' = PageView(categories', promotions')
                  /\ nav' = AttachEventListeners(RenderNavigation(categories', currentCategory))
                  /\ grid' = RenderGrid(currentCategory)
                  /\ display' = CartDisplay(cart)
                  /\ last' = Event("loadDone", "none", <<>>)
     ELSE /\ hookBehaviour = "absent"
          /\ UNCHANGED << loadPc, view, nav, storeData, products, categories, promotions,
                          hookThrew, grid, display >>
          /\ last' = Event("fetchSettled", "none", <<>>)

PageShown == "products" \in view

RECURSIVE SumOver(_, _)
SumOver(f, S) ==
  IF S = {} THEN 0
  ELSE LET x == CHOOSE y \in S : TRUE IN f[x] + SumOver(f, S \ {x})

\* What the session has in progress: api.addToCart requests, open checkout
\* forms (each with the api.checkout it may have pending) and api.checkout
\* requests whose form was closed.
Active == Len(reqs) + Len(forms) + SumOver(orphans, Carts)

(***************************************************************************)
(* Category filter.                                                        *)
(***************************************************************************)
CategoryNames == {"all"} \cup {CategoriesData[i].name : i \in 1..Len(CategoriesData)}

\* A re-render of <main> replaces every add-to-cart button: a button
\* reference held by a pending addToCart no longer is the one in the page.
DetachButtons(rs) ==
  [i \in 1..Len(rs) |->
     IF rs[i].button = "attached" THEN [rs[i] EXCEPT !.button = "detached"] ELSE rs[i]]

\* Click on a .category-btn: each click listener of the button runs
\* (attachEventListeners): it sets currentCategory, rewrites <main>, which
\* replaces the add-to-cart buttons, and calls attachEventListeners again.
\* Running it more than once gives the same category and grid.
CategoryClick(c) ==
  /\ UNCHANGED libVars
  /\ PageShown
  /\ "navigation" \in view
  /\ ~navigated
  /\ currentCategory' = c
  /\ grid' = RenderGrid(c)
  /\ reqs' = DetachButtons(reqs)
  /\ nav' = ListenersRun(nav)
  /\ last' = Event("categoryClick", "none", <<>>)
  /\ UNCHANGED << api, loadPc, fetch, view, storeData, products, categories, promotions,
                  hookThrew, cart, display, forms, orphans, navigated,
                  lastResponse >>

(***************************************************************************)
(* Cart mutation.                                                          *)
(***************************************************************************)
RemoveAt(s, i) == SubSeq(s, 1, i - 1) \o SubSeq(s, i + 1, Len(s))

\* A pending api.addToCart: the handler that awaits it, the product, the
\* button element the handler captured ("attached" while that element is
\* in the page, "none" for updateCartQuantity) and the control that issued
\* it (sign: 0 for the add-to-cart button, -1 / 1 for a row's - / +).
Request(kind, productId, button, sign) ==
  [kind |-> kind, productId |-> productId, button |-> button,
   control |-> <<kind, productId, sign>>]

\* updateCartDisplay: patches the cart panel when it is in the page.
UpdateCartDisplay(c, old) == IF PageShown THEN CartDisplay(c) ELSE old

\* addToCart(productId) up to its await, called by the onclick of the
\* product's add-to-cart button (a disabled button does not fire).
AddToCart(p) ==
  /\ UNCHANGED libVars
  /\ api = "client"
  /\ PageShown
  /\ ~navigated
  /\ grid[p] = "enabled"
  /\ Active < MaxActive
  /\ grid' = [grid EXCEPT ![p] = "adding"]
  /\ reqs' = Append(reqs, Request("add", p, "attached", 0))
  /\ last' = Event("addToCart", "none", <<"addToCart", p, 1>>)
  /\ UNCHANGED << api, loadPc, fetch, view, nav, storeData, products, categories, promotions,
                  hookThrew, currentCategory, cart, display, forms, orphans,
                  navigated, lastResponse >>

\* Success path of addToCart: the button captured before the await is
\* re-enabled (it may be detached by now).
ButtonAfterSuccess(g, r) ==
  IF r.button = "attached" THEN [g EXCEPT ![r.productId] = "enabled"] ELSE g

\* Catch block of addToCart: the button is looked up again by product id.
ButtonAfterFailure(g, r) ==
  IF g[r.productId] # "absent" THEN [g EXCEPT ![r.productId] = "enabled"] ELSE g

\* addToCart from the settling of api.addToCart to its end.
AddToCartSettle(i, ok, response) ==
  /\ UNCHANGED libVars
  /\ i \in 1..Len(reqs)
  /\ reqs[i].kind = "add"
  /\ ~navigated
  /\ cart' = SettleCart(cart, ok, response)
  /\ display' = IF ok THEN UpdateCartDisplay(cart', display) ELSE display
  /\ grid' = IF ok THEN ButtonAfterSuccess(grid, reqs[i]) ELSE ButtonAfterFailure(grid, reqs[i])
  /\ reqs' = RemoveAt(reqs, i)
  /\ lastResponse' = IF ok THEN response ELSE lastResponse
  /\ last' = [op |-> IF ok THEN "addResolved" ELSE "addRejected",
              alert |-> IF ok THEN "none" ELSE "Failed to add item to cart",
              call |-> <<>>, outOfOrder |-> ok /\ i > 1, form |-> 0]
  /\ UNCHANGED << api, loadPc, fetch, view, nav, storeData, products, categories, promotions,
                  hookThrew, currentCategory, forms, orphans, navigated >>

\* A guard that sends every quantity to the server.
IsRemovalNever(newQuantity) == FALSE

\* updateCartQuantity's guard: newQuantity <= 0 (the unimplemented removal).
IsRemoval(newQuantity) == newQuantity <= 0

\* updateCartQuantity(productId, newQuantity) up to its await, called by the
\* onclick of the - (sign = -1) or + (sign = 1) button of a cart row.
UpdateCartQuantity(row, sign) ==
  /\ UNCHANGED libVars
  /\ api = "client"
  /\ PageShown
  /\ ~navigated
  /\ row \in 1..Len(display.items)
  /\ LET args == IF sign = 1 THEN display.items[row].plus ELSE display.items[row].minus
     IN IF IsRemoval(args.newQuantity)
        THEN /\ reqs' = reqs
             /\ last' = Event("updateCartQuantity", "none", <<>>)
        ELSE /\ Active < MaxActive
             /\ reqs' = Append(reqs, Request("quantity", args.productId, "none", sign))
             /\ last' = Event("updateCartQuantity", "none",
                              <<"addToCart", args.productId, args.newQuantity>>)
  /\ UNCHANGED << api, loadPc, fetch, view, nav, storeData, products, categories, promotions,
                  hookThrew, currentCategory, grid, cart, display, forms,
                  orphans, navigated, lastResponse >>

\* updateCartQuantity from the settling of api.addToCart to its end.
UpdateCartQuantitySettle(i, ok, response) ==
  /\ UNCHANGED libVars
  /\ i \in 1..Len(reqs)
  /\ reqs[i].kind = "quantity"
  /\ ~navigated
  /\ cart' = SettleCart(cart, ok, response)
  /\ display' = IF ok THEN UpdateCartDisplay(cart', display) ELSE display
  /\ reqs' = RemoveAt(reqs, i)
  /\ lastResponse' = IF ok THEN response ELSE lastResponse
  /\ last' = [op |-> IF ok THEN "quantityResolved" ELSE "quantityRejected",
              alert |-> IF ok THEN "none" ELSE "Failed to update cart",
              call |-> <<>>, outOfOrder |-> ok /\ i > 1, form |-> 0]
  /\ UNCHANGED << api, loadPc, fetch, view, nav, storeData, products, categories, promotions,
                  hookThrew, currentCategory, grid, forms, orphans, navigated >>

(***************************************************************************)
(* Checkout.                                                               *)
(***************************************************************************)
\* showCheckoutModal: a new .modal-overlay is appended to document.body.
ShowCheckoutModal(fs) == Append(fs, FreshForm)

\* handleCheckout, from the panel's checkout button or window.handleCheckout.
HandleCheckout ==
  /\ UNCHANGED libVars
  /\ api = "client"
  /\ ~navigated
  /\ IF CartIsEmpty(cart)
     THEN /\ forms' = forms
          /\ last' = Event("handleCheckout", "Your cart is empty", <<>>)
     ELSE /\ Active < MaxActive
          /\ forms' = ShowCheckoutModal(forms)
          /\ last' = Event("handleCheckout", "none", <<>>)
  /\ UNCHANGED << api, loadPc, fetch, view, nav, storeData, products, categories, promotions,
                  hookThrew, currentCategory, grid, cart, display, reqs,
                  orphans, navigated, lastResponse >>

\* A form leaves the document: its pending api.checkout goes on without it.
Orphaned(os, f) ==
  IF f.pending THEN [os EXCEPT ![f.cartAtSubmit] = @ + 1] ELSE os

\* The form's close button: this.closest('.modal-overlay').remove().
CloseModal(i) ==
  /\ UNCHANGED libVars
  /\ i \in 1..Len(forms)
  /\ ~navigated
  /\ forms' = RemoveAt(forms, i)
  /\ orphans' = Orphaned(orphans, forms[i])
  /\ last' = Event("closeModal", "none", <<>>)
  /\ UNCHANGED << api, loadPc, fetch, view, nav, storeData, products, categories, promotions,
                  hookThrew, currentCategory, grid, cart, display, reqs,
                  navigated, lastResponse >>

\* submitCheckout(event) up to its await: the order data is built from the
\* form fields and the cart of this moment, the submit button is disabled.
SubmitCheckout(i) ==
  /\ UNCHANGED libVars
  /\ api = "client"
  /\ ~navigated
  /\ i \in 1..Len(forms)
  /\ forms[i].submit = "enabled"
  /\ forms' = [forms EXCEPT ![i] = Form("processing", TRUE, cart, SnapshotItems(cart.items))]
  /\ last' = FormEvent("submitCheckout", "none", <<"checkout">>, i)
  /\ UNCHANGED << api, loadPc, fetch, view, nav, storeData, products, categories, promotions,
                  hookThrew, currentCategory, grid, cart, display, reqs,
                  orphans, navigated, lastResponse >>

\* document.querySelector('.modal-overlay')?.remove(): the first overlay of
\* the document, if there is one.
RemoveFirstOverlay(fs) == IF fs = <<>> THEN fs ELSE Tail(fs)

OrphanedByRemoval(os, fs) == IF fs = <<>> THEN os ELSE Orphaned(os, fs[1])

\* The form whose api.checkout settled: the request is gone, the button
\* stays as submitCheckout left it.
Settled(fs, i) == [fs EXCEPT ![i] = Form("processing", FALSE, EmptyCart, <<>>)]

\* A catch block that leaves the submit button as it is.
ReenableSubmitNot(fs, i) == Settled(fs, i)

\* Catch block of submitCheckout: the captured submit button is enabled
\* again.
ReenableSubmit(fs, i) == [fs EXCEPT ![i] = FreshForm]

\* submitCheckout from the settling of api.checkout to its end, for the
\* request of the open form i.  The event names the place of that form
\* among the forms open afterwards (0 = not open).
CheckoutSettle(i, ok, tracking) ==
  /\ UNCHANGED libVars
  /\ i \in 1..Len(forms)
  /\ forms[i].pending
  /\ ~navigated
  /\ IF ok /\ tracking
     THEN /\ navigated' = TRUE
          /\ forms' = Settled(forms, i)
          /\ last' = FormEvent("checkoutResolved", "Order placed successfully", <<>>, i)
          /\ UNCHANGED << cart, display, orphans >>
     ELSE IF ok
     THEN /\ forms' = RemoveFirstOverlay(Settled(forms, i))
          /\ orphans' = OrphanedByRemoval(orphans, Settled(forms, i))
          /\ cart' = EmptyCart
          /\ display' = UpdateCartDisplay(cart', display)
          /\ last' = FormEvent("checkoutResolved", "Order placed successfully", <<>>, i - 1)
          /\ UNCHANGED navigated
     ELSE /\ forms' = ReenableSubmit(forms, i)
          /\ last' = FormEvent("checkoutRejected", "Checkout failed", <<>>, i)
          /\ UNCHANGED << cart, display, navigated, orphans >>
  /\ UNCHANGED << api, loadPc, fetch, view, nav, storeData, products, categories, promotions,
                  hookThrew, currentCategory, grid, reqs, lastResponse >>

\* The same, for a request whose form was closed while it was pending: the
\* submit button the handler holds is no longer in the document.
CheckoutSettleClosed(c, ok, tracking) ==
  /\ UNCHANGED libVars
  /\ orphans[c] > 0
  /\ ~navigated
  /\ IF ok /\ tracking
     THEN /\ navigated' = TRUE
          /\ orphans' = [orphans EXCEPT ![c] = @ - 1]
          /\ last' = Event("checkoutResolved", "Order placed successfully", <<>>)
          /\ UNCHANGED << forms, cart, display >>
     ELSE IF ok
     THEN /\ forms' = RemoveFirstOverlay(forms)
          /\ orphans' = OrphanedByRemoval([orphans EXCEPT ![c] = @ - 1], forms)
          /\ cart' = EmptyCart
          /\ display' = UpdateCartDisplay(cart', display)
          /\ last' = Event("checkoutResolved", "Order placed successfully", <<>>)
          /\ UNCHANGED navigated
     ELSE /\ orphans' = [orphans EXCEPT ![c] = @ - 1]
          /\ last' = Event("checkoutRejected", "Checkout failed", <<>>)
          /\ UNCHANGED << forms, cart, display, navigated >>
  /\ UNCHANGED << api, loadPc, fetch, view, nav, storeData, products, categories, promotions,
                  hookThrew, currentCategory, grid, reqs, lastResponse >>

Next ==
  \/ \E a \in BOOLEAN, c \in BOOLEAN : InitTheme(a, c)
  \/ \E f \in Fetches, ok \in BOOLEAN, h \in {"absent", "returns", "throws"} : FetchSettle(f, ok, h)
  \/ \E c \in CategoryNames : CategoryClick(c)
  \/ \E p \in ProductIds : AddToCart(p)
  \/ \E i \in 1..MaxActive, r \in ServerCarts : AddToCartSettle(i, TRUE, r)
  \/ \E i \in 1..MaxActive : AddToCartSettle(i, FALSE, EmptyCart)
  \/ \E row \in 1..Len(ProductsData), sign \in {-1, 1} : UpdateCartQuantity(row, sign)
  \/ \E i \in 1..MaxActive, r \in ServerCarts : UpdateCartQuantitySettle(i, TRUE, r)
  \/ \E i \in 1..MaxActive : UpdateCartQuantitySettle(i, FALSE, EmptyCart)
  \/ HandleCheckout
  \/ \E i \in 1..MaxActive : CloseModal(i)
  \/ \E i \in 1..MaxActive : SubmitCheckout(i)
  \/ \E i \in 1..MaxActive, t \in BOOLEAN : CheckoutSettle(i, TRUE, t)
  \/ \E i \in 1..MaxActive : CheckoutSettle(i, FALSE, FALSE)
  \/ \E c \in Carts, t \in BOOLEAN : CheckoutSettleClosed(c, TRUE, t)
  \/ \E c \in Carts : CheckoutSettleClosed(c, FALSE, FALSE)

Spec == Init /\ [][Next]_vars

ImageNext ==
  \/ \E p \in ProductIds : RenderProduct(p)
  \/ \E p \in ProductIds : ImageError(p)
  \/ \E p \in ProductIds : HandleImageErrorCall(p)
  \/ \E u \in LogoUrls : RenderHeaderLogo(u)
  \/ LogoError

ImageSpec == Init /\ [][ImageNext]_vars

RequestNext ==
  \/ \E k \in {"null", "key"}, o \in OptionsSet : CustomAPIRequest(k, o)
  \/ \E op \in {"addToCart", "checkout"} : ClientRequest(op)
  \/ \E resp \in Responses : FetchResolves(resp)
  \/ FetchRejects
  \/ TimerFires
  \/ BodySettles

RequestSpec == Init /\ [][RequestNext]_vars

PureNext ==
  \/ \E fn \in RenderFns, t \in Texts : Render(fn, t)
  \/ \E name \in Names : CallGenerateInitials(name)
  \/ \E filters \in FiltersSet : GetProducts(filters)
  \/ \E ps \in Catalogues, c \in Selections : CallRenderProducts(ps, c)
  \/ \E client \in Clients, s \in StoreSlugs : CallInitTheme(client, s)
  \/ \E h \in {"addToCart", "updateCartQuantity"}, old \in Carts, ok \in BOOLEAN,
          r \in MutationResponses : CallMutationOutcome(h, old, ok, r)

PureSpec == Init /\ [][PureNext]_vars

(***************************************************************************)
(* Properties.                                                             *)
(***************************************************************************)
MutationResolved == {"addResolved", "quantityResolved"}
MutationRejected == {"addRejected", "quantityRejected"}
CheckoutPending ==
  \/ \E i \in 1..Len(forms) : forms[i].pending
  \/ \E c \in Carts : orphans[c] > 0

\* C1: when the api.addToCart call made by addToCart or by
\* updateCartQuantity rejects, the step that handles the failure writes
\* nothing to the cart: the cart after it equals the cart before it.
C1_FailedMutationKeepsCart ==
  [][last'.op \in MutationRejected => cart' = cart]_vars

\* A successful add followed by a failing add: the failure has just been
\* handled and the cart still is the first add's response.
C1_Witness ==
  /\ last.op = "addRejected"
  /\ cart \in ServerCarts
  /\ cart = lastResponse

\* C2: a handleCheckout run with an empty cart issues no API call and opens
\* no form; it shows 'Your cart is empty' and leaves the cart unchanged.
C2_EmptyCartCheckoutRefused ==
  [][(last'.op = "handleCheckout" /\ Len(cart.items) = 0) =>
       /\ last'.call = <<>>
       /\ last'.alert = "Your cart is empty"
       /\ forms' = forms
       /\ orphans' = orphans
       /\ cart' = cart]_vars

C2_Witness ==
  /\ last.op = "handleCheckout"
  /\ last.alert = "Your cart is empty"
  /\ PageShown
  /\ Len(cart.items) = 0
  /\ forms = <<>>

\* C3: the cart always is the initial empty cart or the value returned by
\* the most recently completed successful api.addToCart; a step that
\* resolves such a call makes its response the cart whatever else is still
\* pending, and no other step produces a cart of its own.
C3_CartIsLastResponse ==
  [][/\ cart' \in {EmptyCart, lastResponse'}
     /\ last'.op \in MutationResolved => cart' = lastResponse'
     /\ last'.op \notin MutationResolved => cart' \in {cart, EmptyCart}]_vars

\* A request resolved while one issued before it is still pending, and its
\* response is the cart.
C3_Witness ==
  /\ last.op \in MutationResolved
  /\ last.outOfOrder
  /\ Len(reqs) >= 1
  /\ cart = lastResponse
  /\ cart # EmptyCart

\* The states of the cart/checkout flow: OrderPlaced once the page left for
\* the tracking URL, CheckoutInProgress while a checkout form is open or a
\* checkout request is pending, otherwise Empty or Populated by the cart.
FlowState ==
  IF navigated THEN "OrderPlaced"
  ELSE IF forms # <<>> \/ CheckoutPending THEN "CheckoutInProgress"
  ELSE IF Len(cart.items) = 0 THEN "Empty" ELSE "Populated"

\* C4 as claimed: the flow changes state only by Empty -> Populated (a
\* successful add), Populated -> CheckoutInProgress (handleCheckout with a
\* non-empty cart), out of CheckoutInProgress when the checkout resolves
\* (OrderPlaced), and CheckoutInProgress -> Populated when it rejects.
C4_ClaimedTransitions ==
  [][FlowState' # FlowState =>
       \/ /\ FlowState = "Empty" /\ FlowState' = "Populated"
          /\ last'.op \in MutationResolved
       \/ /\ FlowState = "Populated" /\ FlowState' = "CheckoutInProgress"
          /\ last'.op = "handleCheckout" /\ Len(cart.items) > 0
       \/ /\ FlowState = "CheckoutInProgress"
          /\ last'.op = "checkoutResolved"
       \/ /\ FlowState = "CheckoutInProgress" /\ FlowState' = "Populated"
          /\ last'.op = "checkoutRejected"]_vars

\* C4 (amended): the flow changes state only by Empty -> Populated (a
\* successful add), Populated -> CheckoutInProgress (handleCheckout with a
\* non-empty cart), CheckoutInProgress -> OrderPlaced (checkout resolves with
\* a tracking URL), CheckoutInProgress -> Empty (checkout resolves without
\* one and the cart is reset), and CheckoutInProgress -> Populated or Empty
\* when the user closes the form or the checkout rejects; CheckoutInProgress
\* is never entered while the cart is empty.
C4_Transitions ==
  [][FlowState' # FlowState =>
       \/ /\ FlowState = "Empty" /\ FlowState' = "Populated"
          /\ last'.op \in MutationResolved
       \/ /\ FlowState = "Populated" /\ FlowState' = "CheckoutInProgress"
          /\ last'.op = "handleCheckout" /\ Len(cart.items) > 0
       \/ /\ FlowState = "CheckoutInProgress" /\ FlowState' = "OrderPlaced"
          /\ last'.op = "checkoutResolved"
       \/ /\ FlowState = "CheckoutInProgress" /\ FlowState' = "Empty"
          /\ last'.op = "checkoutResolved" /\ cart' = EmptyCart
       \/ /\ FlowState = "CheckoutInProgress" /\ FlowState' \in {"Populated", "Empty"}
          /\ last'.op \in {"checkoutRejected", "closeModal"}
          /\ cart' = cart]_vars

\* The user closed the only checkout form: the flow is back at Populated
\* without any checkout having been submitted.
C4_Witness ==
  /\ last.op = "closeModal"
  /\ FlowState = "Populated"
  /\ lastResponse = cart

\* C5: no two cart-mutation requests issued from the same control (the
\* add-to-cart button of a product, the + or the - button of a cart item)
\* are in flight at the same time.
C5_OneRequestPerControl ==
  \A i, j \in 1..Len(reqs) : i # j => reqs[i].control # reqs[j].control

\* The fields and the order of an order's items against the cart's.
IsSnapshotOf(sent, items) ==
  /\ Len(sent) = Len(items)
  /\ \A i \in 1..Len(sent) :
       /\ DOMAIN sent[i] = {"product_id", "quantity", "unit_price"}
       /\ sent[i].product_id = items[i].product_id
       /\ sent[i].quantity = items[i].quantity
       /\ sent[i].unit_price = items[i].unit_price

\* C6: the cart_items of a pending checkout request are product_id,
\* quantity and unit_price of each item, in cart order, of the cart at the
\* moment submitCheckout ran; a cart mutation that settles while the request
\* is pending changes nothing of it.
C6_OrderItemsAreSnapshot ==
  [][/\ \A i \in 1..Len(forms') :
          forms'[i].pending => IsSnapshotOf(forms'[i].cart_items, forms'[i].cartAtSubmit.items)
     /\ last'.op = "submitCheckout" =>
          (forms'[last'.form].pending /\ forms'[last'.form].cartAtSubmit = cart)
     /\ last'.op \in MutationResolved \cup MutationRejected =>
          (forms' = forms /\ orphans' = orphans)]_vars

\* A cart replacement landed while the checkout request was pending.
C6_Witness ==
  \E i \in 1..Len(forms) :
    /\ forms[i].pending
    /\ Len(forms[i].cart_items) = 2
    /\ last.op \in MutationResolved
    /\ cart # forms[i].cartAtSubmit

\* C7: when api.checkout resolves, either the page navigates to the
\* tracking URL and the cart is left as it was, or the submitted checkout
\* form is closed and the cart is reset to the empty cart with the cart
\* display updated.
C7_CheckoutResolvedOutcome ==
  [][last'.op = "checkoutResolved" =>
       IF navigated'
       THEN cart' = cart /\ display' = display
       ELSE /\ last'.form = 0
            /\ cart' = EmptyCart
            /\ display' = CartDisplay(EmptyCart)]_vars

\* C8: when api.checkout rejects, the cart and its display are unchanged,
\* no form is closed, the failure message is shown and the submit button of
\* the form is enabled again.
C8_CheckoutRejectedOutcome ==
  [][last'.op = "checkoutRejected" =>
       /\ cart' = cart
       /\ display' = display
       /\ navigated' = navigated
       /\ last'.alert = "Checkout failed"
       /\ Len(forms') = Len(forms)
       /\ last'.form > 0 => forms'[last'.form].submit = "enabled"]_vars

\* The checkout of an open form was rejected: the form is still there with
\* its submit button enabled, and the cart is still populated.
C8_Witness ==
  /\ last.op = "checkoutRejected"
  /\ cart \in ServerCarts
  /\ last.form > 0
  /\ forms[last.form].submit = "enabled"

FullPage == {"header", "navigation", "products"} \subseteq view

\* C9: once loadStoreData has run to its end, the full page is rendered
\* exactly when getStore, getProducts and getCategories all resolved (a
\* rejected getPromotions counting as an empty list), a rejection of one of
\* the three shows only the error view with its retry control, and the
\* loading view is gone once the fetches have settled.
C9_LoadOutcome ==
  /\ loadPc = "done" =>
       /\ FullPage <=> (\A f \in FatalFetches : fetch[f] = "ok")
       /\ (\E f \in FatalFetches : fetch[f] = "fail") => view = ErrorView
       /\ (FullPage /\ fetch["getPromotions"] = "fail") =>
            (promotions = <<>> /\ "error" \notin view)
  /\ (\A f \in Fetches : fetch[f] \in {"ok", "fail"}) => view # LoadingView

\* C10: when the custom-features hook throws after a successful data load,
\* header, navigation and products are rendered all the same and no error
\* view replaces them.
C10_HookFailureKeepsPage ==
  hookThrew => (FullPage /\ "error" \notin view)

\* C11: initTheme without an API client (no api parameter, no
\* window.__STORE_API__) writes the error message into the mount point,
\* issues no fetch and changes nothing of the session but api (which stays
\* null); the load is over with that.
C11_NoClientFailsFast ==
  [][(last'.op = "initTheme" /\ api' = "null") =>
       /\ view' = {"apiError"}
       /\ last'.call = <<>>
       /\ fetch' = fetch
       /\ \A f \in Fetches : fetch'[f] = "idle"
       /\ loadPc' = "aborted"
       /\ UNCHANGED << storeData, products, categories, promotions, currentCategory,
                       cart, display, grid, reqs, forms, orphans, navigated >>]_vars

\* initTheme has run without a client: the message is in the mount point
\* and nothing was fetched.
C11_Witness ==
  /\ last.op = "initTheme"
  /\ api = "null"
  /\ view = {"apiError"}
  /\ loadPc = "aborted"

\* C12: updateCartQuantity with a new quantity <= 0 issues no API call and
\* leaves cart, display and the requests in flight as they are; with a new
\* quantity > 0 it issues exactly one api.addToCart(productId, newQuantity)
\* and leaves cart and display as they are until that settles.
C12_QuantityUpdate ==
  [][\A row \in 1..Len(display.items), sign \in {-1, 1} :
       (last'.op = "updateCartQuantity" /\ UpdateCartQuantity(row, sign)) =>
         LET args == IF sign = 1 THEN display.items[row].plus ELSE display.items[row].minus
         IN /\ cart' = cart
            /\ display' = display
            /\ IF args.newQuantity <= 0
               THEN last'.call = <<>> /\ reqs' = reqs
               ELSE /\ last'.call = <<"addToCart", args.productId, args.newQuantity>>
                    /\ Len(reqs') = Len(reqs) + 1
                    /\ SubSeq(reqs', 1, Len(reqs)) = reqs]_vars

\* The - button of an item of quantity 1 was clicked: nothing was called
\* and the item is still in the cart.
C12_Witness ==
  /\ last.op = "updateCartQuantity"
  /\ last.call = <<>>
  /\ Len(cart.items) > 0
  /\ reqs = <<>>

\* A control is disabled only while the request it issued is pending.
AddButtonsSettled ==
  \A p \in ProductIds :
    grid[p] = "adding" => \E i \in 1..Len(reqs) : reqs[i].kind = "add" /\ reqs[i].productId = p

SubmitButtonsSettled ==
  \A i \in 1..Len(forms) : forms[i].submit = "processing" => forms[i].pending

\* C13: no control is left disabled once its request has settled: an
\* add-to-cart button shows 'Adding...' only while an api.addToCart for its
\* product is pending, and the submit button of an open checkout form is
\* disabled only while that form's api.checkout is pending.
C13_ControlsReenabled ==
  ~navigated => (AddButtonsSettled /\ SubmitButtonsSettled)

\* C14: whatever load-error events an image receives, its src is set to the
\* placeholder at most once; once it was, the guard flag is set, the onerror
\* handler is gone and further errors change nothing but the count.
C14_FallbackOnce ==
  \A p \in ProductIds :
    /\ images[p].swaps <= 1
    /\ images[p].swaps = 1 =>
         (images[p].fallbackSet /\ images[p].onerror = "null" /\ images[p].src = "placeholder")
    /\ images[p].fallbackSet => images[p].swaps = 1

\* The placeholder failed too, more than once, after the one swap.
C14_Witness ==
  \E p \in ProductIds :
    /\ images[p].swaps = 1
    /\ images[p].errors = MaxErrors
    /\ ProductOf(p).image_url # ""

\* The characters that act as markup at a position when they are not
\* escaped.
Unsafe(position) ==
  CASE position = "text" -> {"<", ">", "&"}
    [] position = "attribute" -> {"\"", "&"}
    [] position = "handler" -> {"\"", "'", "&"}

\* C15: no value a rendering function inserts into its markup carries a raw
\* character that acts as markup where it lands: no raw <, > or & in a text
\* position, no raw double quote or & in an attribute value, no raw quote
\* of either kind in the string of an inline handler.
C15_InsertedTextEscaped ==
  result.fn \in RenderFns =>
    \A i \in 1..Len(result.value) :
      \A j \in 1..Len(result.value[i].chars) :
        result.value[i].chars[j] \notin Unsafe(result.value[i].position)

\* C16: customAPIRequest goes by whichever of fetch and the timer settles
\* first: while it awaits fetch the timer (of CustomAPIConfig.timeout,
\* 10000 ms) is armed; the timer firing then rejects it with 'Request
\* timeout', a message no fetch or HTTP-status failure produces; a timer
\* firing after fetch has settled changes nothing of the outcome.
C16_TimeoutRace ==
  [][/\ (request'.via = "customAPIRequest" /\ request'.phase = "fetch") =>
          (request'.timer = "armed" /\ request'.delay = 10000)
     /\ (request.timer = "armed" /\ request'.timer = "fired") =>
          IF request.phase = "fetch"
          THEN request'.phase = "rejected" /\ request'.error = Timeout
          ELSE request'.phase = request.phase /\ request'.error = request.error
     /\ (request'.phase = "rejected" /\ request'.error = Timeout /\ request.phase # "rejected") =>
          (request.phase = "fetch" /\ request.timer = "armed" /\ request'.timer = "fired")]_vars

\* The timer fired while fetch had not settled: the request is rejected
\* with the timeout error and no response was ever received.
C16_Witness ==
  /\ request.via = "customAPIRequest"
  /\ request.phase = "rejected"
  /\ request.error = Timeout
  /\ request.timer = "fired"
  /\ request.response = NoResponse

\* C17: every request customAPIRequest issues carries Content-Type:
\* application/json, carries Authorization: Bearer <apiKey> exactly when
\* an apiKey is configured, and has the JSON serialization of options.body
\* as its body when that is an object; a caller's own headers (here
\* X-Trace, or an empty headers object) take nothing of that away.
C17_RequestHeaders ==
  request.via = "customAPIRequest" =>
    /\ request.config.headers["Content-Type"] = "application/json"
    /\ request.config.headers["Authorization"] =
         (IF request.apiKey = "null" THEN "absent" ELSE "Bearer " \o request.apiKey)
    /\ request.options.body = "object" => request.config.body = "JSON.stringify(object)"

\* C18: a non-2xx response never resolves the request; it rejects with the
\* message of the error body when the body is JSON carrying one, and with a
\* message made of the HTTP status and status text when the body is no JSON
\* or carries none.
C18_ErrorTranslation ==
  (request.phase \in {"resolved", "rejected"} /\ request.response # NoResponse
     /\ ~request.response.ok) =>
    /\ request.phase = "rejected"
    /\ IF request.response.body = "message"
       THEN request.error = BodyMessage
       ELSE request.error \in {StatusMessage(request.response),
                               <<request.response.statusText>>}

\* C19: the query string of getProducts has a parameter for a filter
\* exactly when the filters object has that filter, with the value
\* supplied and no more than once; a filter given as 0, false or '' is
\* encoded like any other.
C19_FiltersEncoded ==
  result.fn = "getProducts" =>
    \A f \in FilterNames :
      LET at == {i \in 1..Len(result.value) : result.value[i][1] = f}
      IN IF result.arg[f] = Undefined
         THEN at = {}
         ELSE /\ Cardinality(at) = 1
              /\ \A i \in at : result.value[i][2] = result.arg[f].v

RECURSIVE WordsFrom(_, _)
\* The words of a name: its maximal runs of letters, in order.
WordsFrom(text, word) ==
  IF text = <<>> THEN (IF word = <<>> THEN <<>> ELSE <<word>>)
  ELSE IF text[1] = " "
  THEN (IF word = <<>> THEN <<>> ELSE <<word>>) \o WordsFrom(Tail(text), <<>>)
  ELSE WordsFrom(Tail(text), Append(word, text[1]))

Capital(ch) == CASE ch = "p" -> "P" [] ch = "z" -> "Z"

\* C20: generateInitials returns the upper-cased first two letters of the
\* name's only word, the upper-cased first letters of its first two words
\* when it has several, and "ST" when it has none; white space before,
\* after or between the words makes no difference.
C20_Initials ==
  result.fn = "generateInitials" =>
    LET words == WordsFrom(result.arg, <<>>)
    IN result.value =
         IF Len(words) = 0 THEN <<"S", "T">>
         ELSE IF Len(words) = 1
         THEN [i \in 1..(IF Len(words[1]) < 2 THEN 1 ELSE 2) |-> Capital(words[1][i])]
         ELSE <<Capital(words[1][1]), Capital(words[2][1])>>
\* C21: the header shows exactly one of the logo image and the initials
\* badge: without a logo_url the badge is visible and there is no <img>;
\* with a logo_url the image is visible and the badge hidden; once the logo
\* failed to load the image is hidden and the badge visible.
C21_LogoOrInitials ==
  header # NoHeader =>
    /\ Cardinality({e \in {"logo", "initials"} : header[e] = "visible"}) = 1
    /\ ~Truthy(header.logo_url) => header.logo = "none" /\ header.initials = "visible"
    /\ Truthy(header.logo_url) /\ ~header.failed =>
         header.logo = "visible" /\ header.initials = "hidden"
    /\ Truthy(header.logo_url) /\ header.failed =>
         header.logo = "hidden" /\ header.initials = "visible"

C21_Witness ==
  Truthy(header.logo_url) /\ header.failed /\ header.logo = "hidden"
    /\ header.initials = "visible"

\* The ids of the products of a list that are of a category, in the order
\* of the list.
RECURSIVE OfCategory(_, _)
OfCategory(ps, selected) ==
  IF ps = <<>> THEN <<>>
  ELSE (IF selected = "all" \/ Head(ps).category = selected THEN <<Head(ps).id>> ELSE <<>>)
         \o OfCategory(Tail(ps), selected)

\* C22: renderProducts shows exactly the products whose category equals
\* currentCategory (case-sensitive), in their original order, or all of them
\* for 'all'; when there are none it shows the empty-state message: the
\* store has no products for 'all', the category has none otherwise.
C22_ProductsOfCategory ==
  result.fn = "renderProductsSelection" =>
    LET ps == result.arg[1]
        selected == result.arg[2]
        shown == OfCategory(ps, selected)
    IN /\ result.value.cards = shown
       /\ shown # <<>> => result.value.message = <<>>
       /\ shown = <<>> /\ selected = "all" =>
            result.value.message = <<"This store has no products yet.">>
       /\ shown = <<>> /\ selected # "all" =>
            result.value.message = <<"No products in the \"", selected, "\" category.">>

C22_Witness ==
  /\ result.fn = "renderProductsSelection"
  /\ result.arg[2] = "c1"
  /\ \E i \in 1..Len(result.arg[1]) : result.arg[1][i].category = "C1"
  /\ result.value.cards = <<2>>

\* The cart panel shows a cart: one row per item with its name, quantity
\* and -/+ targets, the badge with the sum of the quantities (none for 0),
\* the checkout button disabled exactly for an empty cart, and the cart's
\* own total as formatPrice writes it.
DisplayAgrees(d, c) ==
  /\ Len(d.items) = Len(c.items)
  /\ \A i \in 1..Len(c.items) :
       /\ d.items[i].name = c.items[i].product_name
       /\ d.items[i].quantity = c.items[i].quantity
       /\ d.items[i].minus.productId = c.items[i].product_id
       /\ d.items[i].plus.productId = c.items[i].product_id
  /\ d.count = SumQuantity(c.items)
  /\ d.checkoutDisabled <=> (c.items = <<>>)
  /\ d.total = << "$", c.total, "00" >>

C24_TargetRequeried ==
  [][\A i \in 1..Len(reqs) :
       (/\ last'.op \in {"addResolved", "addRejected"}
        /\ reqs[i].kind = "add"
        /\ reqs' = RemoveAt(reqs, i)
        /\ grid[reqs[i].productId] # "absent")
         => grid'[reqs[i].productId] = "enabled"]_vars

\* C25: after initTheme({api, container, storeSlug}) with a StoreAPIClient
\* instance and the identifier s, every request of the client goes under
\* /api/store/s/: the client's storeSlug is s before the first fetch.
C25_RequestsUnderStoreSlug ==
  result.fn = "initTheme" =>
    \A ep \in Endpoints :
      result.value[ep] = << result.arg[1].baseUrl.v, "/api/store/", result.arg[2], "/", ep >>

\* C26: api.checkout is never called with an empty cart_items list: the
\* empty-cart guard of handleCheckout also holds when a checkout form is
\* submitted, including a form opened before an earlier successful checkout
\* reset the cart.
C26_NoEmptyOrder ==
  [][(last'.op = "submitCheckout" /\ last'.call = <<"checkout">>)
       => forms'[last'.form].cart_items # <<>>]_vars

\* C27: at most one checkout form is open and at most one api.checkout is
\* in flight: handleCheckout does not stack forms, a form's submit button
\* stays disabled while its request is pending, and a successful checkout
\* closes the form that was submitted.
C27_OneCheckoutAtATime ==
  /\ Len(forms) <= 1
  /\ Cardinality({i \in 1..Len(forms) : forms[i].pending}) + SumOver(orphans, Carts) <= 1
  /\ \A i \in 1..Len(forms) : forms[i].pending => forms[i].submit = "processing"

\* C28: whenever addToCart or updateCartQuantity shows its 'Failed to ...'
\* alert, the cart is the one from before the call, also when api.addToCart
\* resolved and the display update that follows threw (a response without
\* an items list).
C28_AlertMeansCartUnchanged ==
  (result.fn \in {"addToCart", "updateCartQuantity"} /\ result.value.alert # "none")
    => result.value.cart = result.arg[1]

\* C29: after any sequence of category clicks each category button carries
\* exactly one click listener: one click sets currentCategory and
\* re-renders the product area exactly once.
C29_OneListenerPerButton ==
  [][/\ "navigation" \in view' => nav'.listeners = 1
     /\ last'.op = "categoryClick" => nav.listeners = 1]_vars

\* C30: after any sequence of category clicks the button displayed as
\* active is the one whose category equals currentCategory, and the products
\* shown are those of that category.
C30_ActiveButtonIsCurrent ==
  "navigation" \in view =>
    /\ nav.active = currentCategory
    /\ {p \in ProductIds : grid[p] # "absent"}
         = {p \in ProductIds : currentCategory = "all" \/ ProductOf(p).category = currentCategory}

====
